---- MODULE Spec2Model ----
(***************************************************************************)
(* ywkv: a single-table key-value store over the redb storage engine.      *)
(*                                                                         *)
(* The repository holds the access layer twice: the methods Db::read and   *)
(* Db::write of src/lib.rs, and the HTTP handlers read_key and write_key   *)
(* of src/main.rs, which take the process lock (a tokio RwLock around Db)  *)
(* and then run the same transaction inline.  A process is one or the      *)
(* other (redb locks the database file, so one file has one Database       *)
(* handle); `variant` says which, and is chosen at start.                  *)
(*                                                                         *)
(* A request is run by a worker in steps, one per interaction with shared  *)
(* state: taking the lock, beginning the transaction (the snapshot of a    *)
(* read, the writer slot of a write), the work inside the transaction      *)
(* (open_table and get / insert, on the transaction's own view), the       *)
(* commit, and the release of the lock.  Steps of concurrent requests      *)
(* interleave, and every engine call may fail.                             *)
(***************************************************************************)
EXTENDS Integers, Sequences, FiniteSets, TLC

\* ------------------------------------------------------------- bounds
\* Concurrent workers, and requests started in one run.
NProcs == 2
MaxCalls == 3

Procs == 1..NProcs
Keys == {"a", "b"}
Vals == {"1", "2"}

\* Option<String>: None is the empty sequence, Some(v) the one-element one.
None == <<>>
Some(v) == <<v>>

\* ------------------------------------------------------ the engine (redb)
\* A database file: whether the table exists, and the table's entries.
EmptyStore == [exists |-> FALSE, data |-> [k \in Keys |-> None]]

\* Engine errors, by their description (Display of redb::Error).
IoError == "io error"
TableDoesNotExist == "table does not exist"

\* Which engine call inside a transaction fails, if any.
ReadFailures == {"none", "open_table", "get"}
WriteFailures == {"none", "open_table", "insert"}

NoTx == [kind |-> "none", view |-> EmptyStore]

VARIABLES
    variant,  \* "lib" (src/lib.rs) or "http" (src/main.rs)
    db,       \* the committed contents of the database file
    tx,       \* tx[p]: the transaction worker p holds (kind, and its view)
    rwlock,   \* the tokio RwLock around Db: [readers, writer]
    pc,       \* pc[p]: where worker p stands in its request
    req,      \* req[p]: the request ([op, key, val])
    old,      \* old[p]: old_value of Db::write
    ret,      \* ret[p]: what Db::read / Db::write returned
    resp,     \* resp[p]: what read_key / write_key answered
    calls,    \* number of requests started so far
    log,      \* history: the committed writes, in commit order
    seen,     \* history: Len(log) when p's transaction was begun
    fault,    \* history: whether an engine call of p's request failed
    boots     \* history: whether the process has been started again

vars == <<variant, db, tx, rwlock, pc, req, old, ret, resp, calls, log, seen,
          fault, boots>>

\* .arg(Arg::new(TOKEN).required(true)): the configured bearer token, and the
\* tokens a client may present (a missing header counts as a wrong one).
Token == "secret"
Tokens == {Token, "wrong"}

NoReq == [op |-> "none", key |-> "a", val |-> "1", token |-> Token]
NoRet == [tag |-> "none", opt |-> None]
NoResp == [code |-> 0, status |-> "none", value |-> ""]

\* ------------------------------------------------------------ results
\* Result<_, YwkvError> of src/lib.rs.
Ok(o) == [tag |-> "Ok", opt |-> o]
ErrRedb(e) == [tag |-> "Redb", opt |-> Some(e)]
ErrKeyMissing(k) == [tag |-> "KeyMissing", opt |-> Some(k)]
ErrEmptyTable(k) == [tag |-> "EmptyTable", opt |-> Some(k)]

\* (StatusCode, Json<Response>) of src/main.rs.
Response(c, s, v) == [code |-> c, status |-> s, value |-> v]
from_read_error(e) == Response(500, "Failure", e)
from_write_error(e) == Response(500, "Failure", e)

\* ------------------------------------------------------- engine calls
\* begin_read: a read transaction is a snapshot of the committed state.
begin_read(store) == [kind |-> "read", view |-> store]
\* begin_write: a write transaction works on a private copy until it commits,
\* and the call blocks while another write transaction is live.
begin_write(store) == [kind |-> "write", view |-> store]
WriterSlotFree == \A q \in Procs : tx[q].kind # "write"
\* Faulty variant: opening the table for writing makes a new, empty table.
open_table_write_recreates(t) ==
    [t EXCEPT !.view = [exists |-> TRUE, data |-> [k \in Keys |-> None]]]
\* open_table of a write transaction creates the table if it is missing.
open_table_write(t) == [t EXCEPT !.view.exists = TRUE]
\* Faulty variant: the insert puts the value under every key.
insert_clobbers(t, k, v) == [t EXCEPT !.view.data = [j \in Keys |-> Some(v)]]
\* insert puts the value; get reads it.
insert(t, k, v) == [t EXCEPT !.view.data[k] = Some(v)]
get(t, k) == t.view.data[k]

Init ==
    /\ variant \in {"lib", "http"}
    /\ db = EmptyStore
    /\ tx = [p \in Procs |-> NoTx]
    /\ rwlock = [readers |-> {}, writer |-> 0]
    /\ pc = [p \in Procs |-> "idle"]
    /\ req = [p \in Procs |-> NoReq]
    /\ old = [p \in Procs |-> None]
    /\ ret = [p \in Procs |-> NoRet]
    /\ resp = [p \in Procs |-> NoResp]
    /\ calls = 0
    /\ log = <<>>
    /\ seen = [p \in Procs |-> 0]
    /\ fault = [p \in Procs |-> FALSE]
    /\ boots = FALSE

\* ------------------------------------------------------------ history
\* The record of a committed write: what was asked, and the prior value the
\* write reports to its caller.
Committed(p) == [key |-> req[p].key, val |-> req[p].val, prior |-> old[p]]
\* The same for write_key, whose answer carries the prior value.
Answered(p) ==
    [key |-> req[p].key, val |-> req[p].val,
     prior |-> IF resp[p].status = "SuccessOverwrite" THEN Some(resp[p].value) ELSE None]

\* ------------------------------------------------------------ requests
IsWrite(o) == o \in {"write", "write_key"}

Start(p, o, first) ==
    /\ pc[p] \in {"idle", "done"}
    /\ calls < MaxCalls
    /\ \E k \in Keys, v \in (IF IsWrite(o) THEN Vals ELSE {"1"}) :
          req' = [req EXCEPT ![p] = [op |-> o, key |-> k, val |-> v,
                                     token |-> Token]]
    /\ pc' = [pc EXCEPT ![p] = first]
    /\ calls' = calls + 1
    /\ old' = [old EXCEPT ![p] = None]
    /\ ret' = [ret EXCEPT ![p] = NoRet]
    /\ resp' = [resp EXCEPT ![p] = NoResp]
    /\ fault' = [fault EXCEPT ![p] = FALSE]
    /\ seen' = [seen EXCEPT ![p] = 0]
    /\ UNCHANGED <<variant, boots, db, tx, rwlock, log>>

\* A caller calls Db::read or Db::write.
Call(p) ==
    /\ variant = "lib"
    /\ \E o \in {"read", "write"} : Start(p, o, "begin")

\* The router hands a GET to read_key, a POST to write_key (a request that
\* presents the configured token).
Request(p) ==
    /\ variant = "http"
    /\ \E o \in {"read_key", "write_key"} : Start(p, o, "lock")

\* ------------------------------------- bearer token layer (src/main.rs)
\* get(read_key.layer(..)).post(write_key).layer(ValidateRequestHeaderLayer::bearer(token)):
\* the layer wraps the method router, GET and POST alike, and lets a request
\* through when its Authorization header is "Bearer <token>".
Authorized_get_only(o, tok) == o = "write_key" \/ tok = Token
Authorized(o, tok) == tok = Token

\* The layer's answer to any other request: 401, no body.
Unauthorized == [code |-> 401, status |-> "none", value |-> ""]

\* A request arrives with any token: the layer hands it to its handler or
\* answers 401 itself.
Incoming(p) ==
    /\ variant = "http"
    /\ pc[p] = "idle"
    /\ calls < MaxCalls
    /\ \E o \in {"read_key", "write_key"}, tok \in Tokens, k \in Keys :
       \E v \in (IF IsWrite(o) THEN Vals ELSE {"1"}) :
          /\ req' = [req EXCEPT ![p] = [op |-> o, key |-> k, val |-> v,
                                        token |-> tok]]
          /\ IF Authorized(o, tok)
                THEN /\ pc' = [pc EXCEPT ![p] = "lock"]
                     /\ resp' = [resp EXCEPT ![p] = NoResp]
                ELSE /\ pc' = [pc EXCEPT ![p] = "rejected"]
                     /\ resp' = [resp EXCEPT ![p] = Unauthorized]
    /\ calls' = calls + 1
    /\ old' = [old EXCEPT ![p] = None]
    /\ ret' = [ret EXCEPT ![p] = NoRet]
    /\ fault' = [fault EXCEPT ![p] = FALSE]
    /\ seen' = [seen EXCEPT ![p] = 0]
    /\ UNCHANGED <<variant, boots, db, tx, rwlock, log>>

\* The 401 goes to the client.
unauthorized_return(p) ==
    /\ pc[p] = "rejected"
    /\ pc' = [pc EXCEPT ![p] = "idle"]
    /\ req' = [req EXCEPT ![p] = NoReq]
    /\ resp' = [resp EXCEPT ![p] = NoResp]
    /\ UNCHANGED <<variant, boots, db, tx, rwlock, old, ret, calls, log, seen,
                   fault>>

\* ------------------------------------------------- Db::read (src/lib.rs)
\* let tx = match self.database.begin_read() { Ok(v) => v, Err(e) => return Err(e.into()) };
read_begin(p) ==
    /\ pc[p] = "begin" /\ req[p].op = "read"
    /\ seen' = [seen EXCEPT ![p] = Len(log)]
    /\ \E ok \in BOOLEAN :
          IF ok
          THEN /\ tx' = [tx EXCEPT ![p] = begin_read(db)]
               /\ pc' = [pc EXCEPT ![p] = "lookup"]
               /\ UNCHANGED <<ret, fault>>
          ELSE /\ ret' = [ret EXCEPT ![p] = ErrRedb(IoError)]
               /\ fault' = [fault EXCEPT ![p] = TRUE]
               /\ pc' = [pc EXCEPT ![p] = "done"]
               /\ UNCHANGED tx
    /\ UNCHANGED <<variant, boots, db, rwlock, req, old, resp, calls, log>>

\* Faulty variant: the missing table is reported as a missing key.
read_result_conflated(t, k, e) ==
    IF e = "open_table" THEN ErrRedb(IoError)
    ELSE IF ~t.view.exists THEN ErrKeyMissing(k)
    ELSE IF e = "get" THEN ErrRedb(IoError)
    ELSE IF get(t, k) # None THEN Ok(get(t, k))
    ELSE ErrKeyMissing(k)

\* What Db::read returns once its transaction t is begun, when engine call e
\* fails (or none does):
\*   open_table: Err(TableDoesNotExist) => Err(EmptyTable(key)), Err(e) => Err(e.into())
\*   get: Ok(Some(value)) => Ok(value), Ok(None) => Err(KeyMissing(key)), Err(e) => Err(e.into())
read_result(t, k, e) ==
    IF e = "open_table" THEN ErrRedb(IoError)
    ELSE IF ~t.view.exists THEN ErrEmptyTable(k)
    ELSE IF e = "get" THEN ErrRedb(IoError)
    ELSE IF get(t, k) # None THEN Ok(get(t, k))
    ELSE ErrKeyMissing(k)

\* Faulty variant: the table is opened through a committed write transaction, which
\* creates it.
read_lookup_creates(p) ==
    /\ pc[p] = "lookup" /\ req[p].op = "read"
    /\ \E e \in ReadFailures :
          /\ ret' = [ret EXCEPT ![p] = read_result(tx[p], req[p].key, e)]
          /\ fault' = [fault EXCEPT ![p] =
                e = "open_table" \/ (e = "get" /\ tx[p].view.exists)]
          /\ db' = IF e = "open_table" THEN db ELSE [db EXCEPT !.exists = TRUE]
    /\ tx' = [tx EXCEPT ![p] = NoTx]
    /\ pc' = [pc EXCEPT ![p] = "done"]
    /\ UNCHANGED <<variant, boots, rwlock, req, old, resp, calls, log, seen>>

\* open_table and get, on the snapshot; returning drops the transaction.
read_lookup(p) ==
    /\ pc[p] = "lookup" /\ req[p].op = "read"
    /\ \E e \in ReadFailures :
          /\ ret' = [ret EXCEPT ![p] = read_result(tx[p], req[p].key, e)]
          /\ fault' = [fault EXCEPT ![p] =
                e = "open_table" \/ (e = "get" /\ tx[p].view.exists)]
    /\ tx' = [tx EXCEPT ![p] = NoTx]
    /\ pc' = [pc EXCEPT ![p] = "done"]
    /\ UNCHANGED <<variant, boots, db, rwlock, req, old, resp, calls, log, seen>>

\* Faulty variant: the write transaction is begun without waiting for the writer slot.
write_begin_unserialized(p) ==
    /\ pc[p] = "begin" /\ req[p].op = "write"
    /\ seen' = [seen EXCEPT ![p] = Len(log)]
    /\ \E ok \in BOOLEAN :
          IF ok
          THEN /\ tx' = [tx EXCEPT ![p] = begin_write(db)]
               /\ pc' = [pc EXCEPT ![p] = "insert"]
               /\ UNCHANGED <<ret, fault>>
          ELSE /\ ret' = [ret EXCEPT ![p] = ErrRedb(IoError)]
               /\ fault' = [fault EXCEPT ![p] = TRUE]
               /\ pc' = [pc EXCEPT ![p] = "done"]
               /\ UNCHANGED tx
    /\ UNCHANGED <<variant, boots, db, rwlock, req, old, resp, calls, log>>

\* ------------------------------------------------ Db::write (src/lib.rs)
\* let tx = match self.database.begin_write() { Ok(v) => v, Err(e) => return Err(e.into()) };
write_begin(p) ==
    /\ pc[p] = "begin" /\ req[p].op = "write"
    /\ seen' = [seen EXCEPT ![p] = Len(log)]
    /\ \E ok \in BOOLEAN :
          IF ok
          THEN /\ WriterSlotFree
               /\ tx' = [tx EXCEPT ![p] = begin_write(db)]
               /\ pc' = [pc EXCEPT ![p] = "insert"]
               /\ UNCHANGED <<ret, fault>>
          ELSE /\ ret' = [ret EXCEPT ![p] = ErrRedb(IoError)]
               /\ fault' = [fault EXCEPT ![p] = TRUE]
               /\ pc' = [pc EXCEPT ![p] = "done"]
               /\ UNCHANGED tx
    /\ UNCHANGED <<variant, boots, db, rwlock, req, old, resp, calls, log>>

\* Faulty variant: the value insert returns is thrown away.
write_insert_forgets(p) ==
    /\ pc[p] = "insert" /\ req[p].op = "write"
    /\ \E e \in WriteFailures :
          IF e = "none"
          THEN /\ tx' = [tx EXCEPT ![p] =
                     insert(open_table_write(tx[p]), req[p].key, req[p].val)]
               /\ pc' = [pc EXCEPT ![p] = "commit"]
               /\ UNCHANGED <<ret, fault>>
          ELSE /\ ret' = [ret EXCEPT ![p] = ErrRedb(IoError)]
               /\ fault' = [fault EXCEPT ![p] = TRUE]
               /\ tx' = [tx EXCEPT ![p] = NoTx]
               /\ pc' = [pc EXCEPT ![p] = "done"]
    /\ UNCHANGED <<variant, boots, db, rwlock, req, old, resp, calls, log, seen>>

\* Faulty variant: when insert fails, the transaction is committed before the error is
\* returned, which keeps the table that open_table created.
write_insert_commits_on_error(p) ==
    /\ pc[p] = "insert" /\ req[p].op = "write"
    /\ \E e \in WriteFailures :
          IF e = "none"
          THEN /\ old' = [old EXCEPT ![p] = get(tx[p], req[p].key)]
               /\ tx' = [tx EXCEPT ![p] =
                     insert(open_table_write(tx[p]), req[p].key, req[p].val)]
               /\ pc' = [pc EXCEPT ![p] = "commit"]
               /\ UNCHANGED <<ret, fault, db>>
          ELSE /\ ret' = [ret EXCEPT ![p] = ErrRedb(IoError)]
               /\ fault' = [fault EXCEPT ![p] = TRUE]
               /\ db' = IF e = "insert" THEN open_table_write(tx[p]).view ELSE db
               /\ tx' = [tx EXCEPT ![p] = NoTx]
               /\ pc' = [pc EXCEPT ![p] = "done"]
               /\ UNCHANGED old
    /\ UNCHANGED <<variant, boots, rwlock, req, resp, calls, log, seen>>

\* let old_value = { open_table; match table.insert(key, val) {
\*   Ok(Some(v)) => Some(v), Ok(None) => None, Err(e) => return Err(e.into()) } };
\* An early return drops the transaction, which aborts it.
write_insert(p) ==
    /\ pc[p] = "insert" /\ req[p].op = "write"
    /\ \E e \in WriteFailures :
          IF e = "none"
          THEN /\ old' = [old EXCEPT ![p] = get(tx[p], req[p].key)]
               /\ tx' = [tx EXCEPT ![p] =
                     insert(open_table_write(tx[p]), req[p].key, req[p].val)]
               /\ pc' = [pc EXCEPT ![p] = "commit"]
               /\ UNCHANGED <<ret, fault>>
          ELSE /\ ret' = [ret EXCEPT ![p] = ErrRedb(IoError)]
               /\ fault' = [fault EXCEPT ![p] = TRUE]
               /\ tx' = [tx EXCEPT ![p] = NoTx]
               /\ pc' = [pc EXCEPT ![p] = "done"]
               /\ UNCHANGED old
    /\ UNCHANGED <<variant, boots, db, rwlock, req, resp, calls, log, seen>>

\* Faulty variant: success is returned without the commit: the transaction is dropped.
write_commit_dropped(p) ==
    /\ pc[p] = "commit" /\ req[p].op = "write"
    /\ \E ok \in BOOLEAN :
          IF ok
          THEN /\ log' = Append(log, Committed(p))
               /\ ret' = [ret EXCEPT ![p] = Ok(old[p])]
               /\ UNCHANGED fault
          ELSE /\ ret' = [ret EXCEPT ![p] = ErrRedb(IoError)]
               /\ fault' = [fault EXCEPT ![p] = TRUE]
               /\ UNCHANGED log
    /\ tx' = [tx EXCEPT ![p] = NoTx]
    /\ old' = [old EXCEPT ![p] = None]
    /\ pc' = [pc EXCEPT ![p] = "done"]
    /\ UNCHANGED <<variant, boots, db, rwlock, req, resp, calls, seen>>

\* Faulty variant: a failed commit is not reported, the write is attempted again.
write_commit_retries(p) ==
    /\ pc[p] = "commit" /\ req[p].op = "write"
    /\ \E ok \in BOOLEAN :
          IF ok
          THEN /\ db' = tx[p].view
               /\ log' = Append(log, Committed(p))
               /\ ret' = [ret EXCEPT ![p] = Ok(old[p])]
               /\ pc' = [pc EXCEPT ![p] = "done"]
          ELSE /\ pc' = [pc EXCEPT ![p] = "begin"]
               /\ UNCHANGED <<db, log, ret>>
    /\ tx' = [tx EXCEPT ![p] = NoTx]
    /\ old' = [old EXCEPT ![p] = None]
    /\ UNCHANGED <<variant, boots, rwlock, req, resp, calls, seen, fault>>

\* if let Err(e) = tx.commit() { return Err(e.into()); }  Ok(old_value)
write_commit(p) ==
    /\ pc[p] = "commit" /\ req[p].op = "write"
    /\ \E ok \in BOOLEAN :
          IF ok
          THEN /\ db' = tx[p].view
               /\ log' = Append(log, Committed(p))
               /\ ret' = [ret EXCEPT ![p] = Ok(old[p])]
               /\ UNCHANGED fault
          ELSE /\ ret' = [ret EXCEPT ![p] = ErrRedb(IoError)]
               /\ fault' = [fault EXCEPT ![p] = TRUE]
               /\ UNCHANGED <<db, log>>
    /\ tx' = [tx EXCEPT ![p] = NoTx]
    \* old_value is moved into the result
    /\ old' = [old EXCEPT ![p] = None]
    /\ pc' = [pc EXCEPT ![p] = "done"]
    /\ UNCHANGED <<variant, boots, rwlock, req, resp, calls, seen>>

\* ------------------------------------------- the process lock (tokio RwLock)
\* RwLock::read(): shared; granted unless a writer holds the lock.
CanLockShared(l) == l.writer = 0
LockShared(l, p) == [l EXCEPT !.readers = @ \cup {p}]
\* Dropping the guard.
Unlock(l, p) == [readers |-> l.readers \ {p},
                 writer |-> IF l.writer = p THEN 0 ELSE l.writer]

\* ------------------------------------------------ read_key (src/main.rs)
\* let db = state.read().await;
read_key_lock(p) ==
    /\ pc[p] = "lock" /\ req[p].op = "read_key"
    /\ CanLockShared(rwlock)
    /\ rwlock' = LockShared(rwlock, p)
    /\ pc' = [pc EXCEPT ![p] = "begin"]
    /\ UNCHANGED <<variant, boots, db, tx, req, old, ret, resp, calls, log, seen, fault>>

\* let tx = match db.database.begin_read() { Ok(v) => v, Err(e) => return from_read_error(e) };
read_key_begin(p) ==
    /\ pc[p] = "begin" /\ req[p].op = "read_key"
    /\ seen' = [seen EXCEPT ![p] = Len(log)]
    /\ \E ok \in BOOLEAN :
          IF ok
          THEN /\ tx' = [tx EXCEPT ![p] = begin_read(db)]
               /\ pc' = [pc EXCEPT ![p] = "lookup"]
               /\ UNCHANGED <<resp, fault>>
          ELSE /\ resp' = [resp EXCEPT ![p] = from_read_error(IoError)]
               /\ fault' = [fault EXCEPT ![p] = TRUE]
               /\ pc' = [pc EXCEPT ![p] = "ret"]
               /\ UNCHANGED tx
    /\ UNCHANGED <<variant, boots, db, rwlock, req, old, ret, calls, log>>

\* What read_key answers once its transaction t is begun, when engine call e
\* fails (or none does):
\*   open_table: Err(e) => return Response::from_read_error(e)
\*   get: Ok(Some(value)) => (OK, Found, value), Ok(None) => (NOT_FOUND, Missing, ""),
\*        Err(e) => Response::from_read_error(e)
read_key_response(t, k, e) ==
    IF e = "open_table" THEN from_read_error(IoError)
    ELSE IF ~t.view.exists THEN from_read_error(TableDoesNotExist)
    ELSE IF e = "get" THEN from_read_error(IoError)
    ELSE IF get(t, k) # None THEN Response(200, "Found", get(t, k)[1])
    ELSE Response(404, "Missing", "")

\* Faulty variant: the lookup reads the committed state of the moment, not the
\* snapshot of its transaction.
read_key_lookup_live(p) ==
    /\ pc[p] = "lookup" /\ req[p].op = "read_key"
    /\ \E e \in ReadFailures :
          /\ resp' = [resp EXCEPT ![p] =
                read_key_response(begin_read(db), req[p].key, e)]
          /\ fault' = [fault EXCEPT ![p] =
                e = "open_table" \/ (e = "get" /\ db.exists)]
    /\ tx' = [tx EXCEPT ![p] = NoTx]
    /\ pc' = [pc EXCEPT ![p] = "ret"]
    /\ UNCHANGED <<variant, boots, db, rwlock, req, old, ret, calls, log, seen>>

\* Faulty variant: the read opens the table as a write does, creating it.
read_key_lookup_creates(p) ==
    /\ pc[p] = "lookup" /\ req[p].op = "read_key"
    /\ \E e \in ReadFailures :
          /\ resp' = [resp EXCEPT ![p] = read_key_response(tx[p], req[p].key, e)]
          /\ fault' = [fault EXCEPT ![p] =
                e = "open_table" \/ (e = "get" /\ tx[p].view.exists)]
          /\ db' = IF e = "open_table" THEN db ELSE [db EXCEPT !.exists = TRUE]
    /\ tx' = [tx EXCEPT ![p] = NoTx]
    /\ pc' = [pc EXCEPT ![p] = "ret"]
    /\ UNCHANGED <<variant, boots, rwlock, req, old, ret, calls, log, seen>>

\* open_table and get, on the snapshot; the transaction is dropped on the way out.
read_key_lookup(p) ==
    /\ pc[p] = "lookup" /\ req[p].op = "read_key"
    /\ \E e \in ReadFailures :
          /\ resp' = [resp EXCEPT ![p] = read_key_response(tx[p], req[p].key, e)]
          /\ fault' = [fault EXCEPT ![p] =
                e = "open_table" \/ (e = "get" /\ tx[p].view.exists)]
    /\ tx' = [tx EXCEPT ![p] = NoTx]
    /\ pc' = [pc EXCEPT ![p] = "ret"]
    /\ UNCHANGED <<variant, boots, db, rwlock, req, old, ret, calls, log, seen>>

\* Returning drops the lock guard `db`, after the transaction, and hands the
\* answer to the client: the worker keeps nothing of the request.
read_key_return(p) ==
    /\ pc[p] = "ret" /\ req[p].op = "read_key"
    /\ rwlock' = Unlock(rwlock, p)
    /\ pc' = [pc EXCEPT ![p] = "idle"]
    /\ req' = [req EXCEPT ![p] = NoReq]
    /\ resp' = [resp EXCEPT ![p] = NoResp]
    /\ seen' = [seen EXCEPT ![p] = 0]
    /\ fault' = [fault EXCEPT ![p] = FALSE]
    /\ UNCHANGED <<variant, boots, db, tx, old, ret, calls, log>>

\* ----------------------------------------------- write_key (src/main.rs)
\* let db = state.read().await;
write_key_lock(p) ==
    /\ pc[p] = "lock" /\ req[p].op = "write_key"
    /\ CanLockShared(rwlock)
    /\ rwlock' = LockShared(rwlock, p)
    /\ pc' = [pc EXCEPT ![p] = "begin"]
    /\ UNCHANGED <<variant, boots, db, tx, req, old, ret, resp, calls, log, seen, fault>>

\* Faulty variant: the write transaction is begun without waiting for the writer slot.
write_key_begin_unserialized(p) ==
    /\ pc[p] = "begin" /\ req[p].op = "write_key"
    /\ seen' = [seen EXCEPT ![p] = Len(log)]
    /\ \E ok \in BOOLEAN :
          IF ok
          THEN /\ tx' = [tx EXCEPT ![p] = begin_write(db)]
               /\ pc' = [pc EXCEPT ![p] = "insert"]
               /\ UNCHANGED <<resp, fault>>
          ELSE /\ resp' = [resp EXCEPT ![p] = from_write_error(IoError)]
               /\ fault' = [fault EXCEPT ![p] = TRUE]
               /\ pc' = [pc EXCEPT ![p] = "ret"]
               /\ UNCHANGED tx
    /\ UNCHANGED <<variant, boots, db, rwlock, req, old, ret, calls, log>>

\* let tx = match db.database.begin_write() { Ok(v) => v, Err(e) => return from_write_error(e) };
write_key_begin(p) ==
    /\ pc[p] = "begin" /\ req[p].op = "write_key"
    /\ seen' = [seen EXCEPT ![p] = Len(log)]
    /\ \E ok \in BOOLEAN :
          IF ok
          THEN /\ WriterSlotFree
               /\ tx' = [tx EXCEPT ![p] = begin_write(db)]
               /\ pc' = [pc EXCEPT ![p] = "insert"]
               /\ UNCHANGED <<resp, fault>>
          ELSE /\ resp' = [resp EXCEPT ![p] = from_write_error(IoError)]
               /\ fault' = [fault EXCEPT ![p] = TRUE]
               /\ pc' = [pc EXCEPT ![p] = "ret"]
               /\ UNCHANGED tx
    /\ UNCHANGED <<variant, boots, db, rwlock, req, old, ret, calls, log>>

\* Faulty variant: the answer to an overwrite echoes the payload, not the old value.
write_key_insert_echoes(p) ==
    /\ pc[p] = "insert" /\ req[p].op = "write_key"
    /\ \E e \in WriteFailures :
          IF e = "none"
          THEN /\ resp' = [resp EXCEPT ![p] =
                     IF get(tx[p], req[p].key) # None
                     THEN Response(0, "SuccessOverwrite", req[p].val)
                     ELSE Response(0, "SuccessNew", "")]
               /\ tx' = [tx EXCEPT ![p] =
                     insert(open_table_write(tx[p]), req[p].key, req[p].val)]
               /\ pc' = [pc EXCEPT ![p] = "commit"]
               /\ UNCHANGED fault
          ELSE /\ resp' = [resp EXCEPT ![p] = from_write_error(IoError)]
               /\ fault' = [fault EXCEPT ![p] = TRUE]
               /\ tx' = [tx EXCEPT ![p] = NoTx]
               /\ pc' = [pc EXCEPT ![p] = "ret"]
    /\ UNCHANGED <<variant, boots, db, rwlock, req, old, ret, calls, log, seen>>

\* Faulty variant: an error of open_table or insert returns with the write
\* transaction still open.
write_key_insert_leaks(p) ==
    /\ pc[p] = "insert" /\ req[p].op = "write_key"
    /\ \E e \in WriteFailures :
          IF e = "none"
          THEN /\ resp' = [resp EXCEPT ![p] =
                     IF get(tx[p], req[p].key) # None
                     THEN Response(0, "SuccessOverwrite", get(tx[p], req[p].key)[1])
                     ELSE Response(0, "SuccessNew", "")]
               /\ tx' = [tx EXCEPT ![p] =
                     insert(open_table_write(tx[p]), req[p].key, req[p].val)]
               /\ pc' = [pc EXCEPT ![p] = "commit"]
               /\ UNCHANGED fault
          ELSE /\ resp' = [resp EXCEPT ![p] = from_write_error(IoError)]
               /\ fault' = [fault EXCEPT ![p] = TRUE]
               /\ pc' = [pc EXCEPT ![p] = "ret"]
               /\ UNCHANGED tx
    /\ UNCHANGED <<variant, boots, db, rwlock, req, old, ret, calls, log, seen>>

\* let resp = { open_table; match table.insert(key, payload) {
\*   Ok(Some(v)) => Response::new(v, SuccessOverwrite),
\*   Ok(None) => Response::new("", SuccessNew), Err(e) => return from_write_error(e) } };
\* The response built here is not answered yet: its code stays 0 until the commit.
write_key_insert(p) ==
    /\ pc[p] = "insert" /\ req[p].op = "write_key"
    /\ \E e \in WriteFailures :
          IF e = "none"
          THEN /\ resp' = [resp EXCEPT ![p] =
                     IF get(tx[p], req[p].key) # None
                     THEN Response(0, "SuccessOverwrite", get(tx[p], req[p].key)[1])
                     ELSE Response(0, "SuccessNew", "")]
               /\ tx' = [tx EXCEPT ![p] =
                     insert(open_table_write(tx[p]), req[p].key, req[p].val)]
               /\ pc' = [pc EXCEPT ![p] = "commit"]
               /\ UNCHANGED fault
          ELSE /\ resp' = [resp EXCEPT ![p] = from_write_error(IoError)]
               /\ fault' = [fault EXCEPT ![p] = TRUE]
               /\ tx' = [tx EXCEPT ![p] = NoTx]
               /\ pc' = [pc EXCEPT ![p] = "ret"]
    /\ UNCHANGED <<variant, boots, db, rwlock, req, old, ret, calls, log, seen>>

\* Faulty variant: the result of the commit is ignored, the answer is a success either way.
write_key_commit_unchecked(p) ==
    /\ pc[p] = "commit" /\ req[p].op = "write_key"
    /\ \E ok \in BOOLEAN :
          IF ok
          THEN /\ db' = tx[p].view
               /\ log' = Append(log, Answered(p))
          ELSE /\ UNCHANGED <<db, log>>
    /\ resp' = [resp EXCEPT ![p].code = 200]
    /\ tx' = [tx EXCEPT ![p] = NoTx]
    /\ pc' = [pc EXCEPT ![p] = "ret"]
    /\ UNCHANGED <<variant, boots, rwlock, req, old, ret, calls, seen, fault>>

\* if let Err(e) = tx.commit() { return from_write_error(e); }  (StatusCode::OK, Json::from(resp))
write_key_commit(p) ==
    /\ pc[p] = "commit" /\ req[p].op = "write_key"
    /\ \E ok \in BOOLEAN :
          IF ok
          THEN /\ db' = tx[p].view
               /\ log' = Append(log, Answered(p))
               /\ resp' = [resp EXCEPT ![p].code = 200]
               /\ UNCHANGED fault
          ELSE /\ resp' = [resp EXCEPT ![p] = from_write_error(IoError)]
               /\ fault' = [fault EXCEPT ![p] = TRUE]
               /\ UNCHANGED <<db, log>>
    /\ tx' = [tx EXCEPT ![p] = NoTx]
    /\ pc' = [pc EXCEPT ![p] = "ret"]
    /\ UNCHANGED <<variant, boots, rwlock, req, old, ret, calls, seen>>

\* Returning drops the lock guard `db`, after the transaction, and hands the
\* answer to the client: the worker keeps nothing of the request.
write_key_return(p) ==
    /\ pc[p] = "ret" /\ req[p].op = "write_key"
    /\ rwlock' = Unlock(rwlock, p)
    /\ pc' = [pc EXCEPT ![p] = "idle"]
    /\ req' = [req EXCEPT ![p] = NoReq]
    /\ resp' = [resp EXCEPT ![p] = NoResp]
    /\ seen' = [seen EXCEPT ![p] = 0]
    /\ fault' = [fault EXCEPT ![p] = FALSE]
    /\ UNCHANGED <<variant, boots, db, tx, old, ret, calls, log>>

\* ------------------------------------------- DbState::new (src/main.rs)
\* Database::create opens the file when it holds a valid database, and
\* initializes a new database only in a missing or empty file (which is
\* EmptyStore here).
Database_create_truncates(file) == EmptyStore
Database_create(file) == file

\* if let Ok(v) = Database::open(path) { v } else { Database::create(path).unwrap() }
DbState_new(file, openOk) == IF openOk THEN file ELSE Database_create(file)

\* The process ends (a signal, a crash) and is started again on the same
\* file: the transactions in flight are gone with it, uncommitted.
Restart ==
    /\ variant = "http"
    /\ \E openOk \in BOOLEAN : db' = DbState_new(db, openOk)
    /\ tx' = [p \in Procs |-> NoTx]
    /\ rwlock' = [readers |-> {}, writer |-> 0]
    /\ pc' = [p \in Procs |-> "idle"]
    /\ req' = [p \in Procs |-> NoReq]
    /\ old' = [p \in Procs |-> None]
    /\ ret' = [p \in Procs |-> NoRet]
    /\ resp' = [p \in Procs |-> NoResp]
    /\ seen' = [p \in Procs |-> 0]
    /\ fault' = [p \in Procs |-> FALSE]
    /\ boots' = TRUE
    /\ UNCHANGED <<variant, calls, log>>

\* -------------------------------------------------------- specification
NextLib ==
    \E p \in Procs :
        \/ Call(p)
        \/ read_begin(p)
        \/ read_lookup(p)
        \/ write_begin(p)
        \/ write_insert(p)
        \/ write_commit(p)

\* The two handlers, step by step.
Serve(p) ==
        \/ read_key_lock(p)
        \/ read_key_begin(p)
        \/ read_key_lookup(p)
        \/ read_key_return(p)
        \/ write_key_lock(p)
        \/ write_key_begin(p)
        \/ write_key_insert(p)
        \/ write_key_commit(p)
        \/ write_key_return(p)

NextHttp == \E p \in Procs : Request(p) \/ Serve(p)

\* The server behind its bearer token layer.
NextAuth == \E p \in Procs : Incoming(p) \/ unauthorized_return(p) \/ Serve(p)

Next == NextLib \/ NextHttp

Spec == Init /\ [][Next]_vars

\* The HTTP server alone.
InitHttp == Init /\ variant = "http"

\* The HTTP server, stopped and started again at any moment.
SpecRestart == InitHttp /\ [][NextHttp \/ Restart]_vars

\* The HTTP server receiving requests with any token.
SpecAuth == InitHttp /\ [][NextAuth]_vars

\* A step of worker p's handler that the runtime and the engine owe it: the
\* workers are scheduled fairly, the lock is granted when it can be, and an
\* engine call returns when the resource it needs is available (begin_write
\* needs the writer slot).
Progress(p) ==
    /\ (pc[p] = "begin" /\ req[p].op = "write_key") => WriterSlotFree
    /\ Serve(p)

\* Requests that all name one key: the lock and the writer slot are the same
\* for every key, and requests to one key contend the most.
RequestSameKey(p) ==
    /\ Request(p)
    /\ req'[p].key = "a"

NextFair == \E p \in Procs : RequestSameKey(p) \/ Serve(p)

\* The HTTP server under fair scheduling.
FairSpec == InitHttp /\ [][NextFair]_vars /\ \A p \in Procs : WF_vars(Progress(p))

\* ------------------------------------------------------------- history
\* The value of key k after the first n committed writes of history l.
LastValIn(l, k, n) ==
    LET idx == {i \in 1..n : l[i].key = k}
    IN  IF idx = {} THEN None
        ELSE Some(l[CHOOSE i \in idx : \A j \in idx : j <= i].val)
LastVal(k, n) == LastValIn(log, k, n)
\* The store after the first n committed writes of history l.
StoreIn(l, n) == [exists |-> n > 0, data |-> [k \in Keys |-> LastValIn(l, k, n)]]

\* Worker p has returned from Db::read / Db::write.
Returned(p, o) == pc[p] = "done" /\ req[p].op = o
\* Worker p has built the answer of read_key / write_key and is about to hand it over.
Answering(p, o) == pc[p] = "ret" /\ req[p].op = o

\* ------------------------------------------------------------- claims

\* C1 (round trip): when write(K, V) has committed and no other write to K
\* commits before a read(K) begins, that read returns exactly V (unless an
\* engine call of the read itself fails).
C1_RoundTrip ==
    \A p \in Procs : \A i \in 1..Len(log) :
        ( /\ Returned(p, "read") /\ ~fault[p]
          /\ log[i].key = req[p].key /\ i <= seen[p]
          /\ \A j \in (i+1)..seen[p] : log[j].key # req[p].key )
        => ret[p] = Ok(Some(log[i].val))

\* A read has returned the value of the last committed write to its key.
C1_Witness ==
    \E p \in Procs : \E i \in 1..Len(log) :
        /\ Returned(p, "read") /\ ~fault[p]
        /\ log[i].key = req[p].key /\ i <= seen[p]
        /\ \A j \in (i+1)..seen[p] : log[j].key # req[p].key
        /\ ret[p] = Ok(Some(log[i].val))

\* C2 (overwrite signaling): a successful write(K, V) returns None exactly
\* when K had no committed value when its transaction began, and Some(P)
\* exactly when K's committed value then was P.
C2_OverwriteSignal ==
    \A p \in Procs :
        (Returned(p, "write") /\ ret[p].tag = "Ok")
        => ret[p].opt = LastVal(req[p].key, seen[p])

\* write(K, V1) returned None, write(K, V2) returned Some(V1), and the read
\* of K after them returned V2.
C2_Witness ==
    \E p, q \in Procs : \E k \in Keys :
        /\ Len(log) = 2 /\ log[1].key = k /\ log[2].key = k
        /\ log[1].prior = None /\ log[2].prior = Some(log[1].val)
        /\ log[1].val # log[2].val
        /\ Returned(p, "write") /\ req[p].key = k /\ ret[p] = Ok(Some(log[1].val))
        /\ Returned(q, "read") /\ req[q].key = k /\ seen[q] = 2
        /\ ret[q] = Ok(Some(log[2].val))

\* C3 (missing-key distinction): read(K) fails with EmptyTable(K) exactly
\* when no write had committed when it began, with KeyMissing(K) exactly when
\* some write had committed but none to K, and with an engine failure exactly
\* when an engine call of the read failed.
C3_MissingDistinction ==
    \A p \in Procs :
        Returned(p, "read") =>
            /\ ret[p] = ErrEmptyTable(req[p].key) <=> (~fault[p] /\ seen[p] = 0)
            /\ ret[p] = ErrKeyMissing(req[p].key)
                  <=> (~fault[p] /\ seen[p] > 0 /\ LastVal(req[p].key, seen[p]) = None)
            /\ ret[p].tag = "Redb" <=> fault[p]
            /\ ret[p].tag \in {"Ok", "KeyMissing", "EmptyTable", "Redb"}

\* One read has failed with EmptyTable on the fresh store and another with
\* KeyMissing after a write to the other key.
C3_Witness ==
    \E p, q \in Procs :
        /\ Returned(p, "read") /\ ret[p] = ErrEmptyTable(req[p].key)
        /\ Returned(q, "read") /\ ret[q] = ErrKeyMissing(req[q].key)
        /\ seen[q] > 0

\* A step in which an engine call of write request p fails.
WriteFails(p) ==
    /\ IsWrite(req[p].op)
    /\ pc[p] \in {"begin", "insert", "commit"}
    /\ ~fault[p] /\ fault'[p]

\* C4 (write atomicity): a step in which a write fails (at begin, open_table,
\* insert or commit) returns an engine failure, ends the transaction, and
\* leaves the store as it was when the write's transaction began; and the
\* store always holds exactly the committed writes, so that no read observes
\* the value of a failed write.
C4_WriteAtomicity ==
    [][ /\ \A p \in Procs : WriteFails(p) =>
              /\ db' = db /\ log' = log
              /\ db' = StoreIn(log, seen'[p])
              /\ tx'[p] = NoTx
              /\ IF req[p].op = "write"
                 THEN ret'[p] = ErrRedb(IoError) /\ pc'[p] = "done"
                 ELSE resp'[p] = from_write_error(IoError) /\ pc'[p] = "ret"
        /\ db' = StoreIn(log', Len(log')) ]_vars

\* A write that would have overwritten a committed value has failed, and the
\* store still holds the committed value.
C4_Witness ==
    \E p \in Procs :
        /\ IsWrite(req[p].op) /\ pc[p] \in {"done", "ret"} /\ fault[p]
        /\ Len(log) > 0 /\ seen[p] = Len(log)
        /\ db.data[req[p].key] # None
        /\ db.data[req[p].key] # Some(req[p].val)

\* C5 (isolation): what a read_key answers is decided by the writes committed
\* when its read transaction began: it never shows a write committed later,
\* and it shows every write committed before.
C5_Isolation ==
    \A p \in Procs :
        (Answering(p, "read_key") /\ ~fault[p]) =>
            resp[p] = IF seen[p] = 0 THEN from_read_error(TableDoesNotExist)
                      ELSE IF LastVal(req[p].key, seen[p]) = None
                      THEN Response(404, "Missing", "")
                      ELSE Response(200, "Found", LastVal(req[p].key, seen[p])[1])

\* A read_key whose transaction began before a write to its key committed
\* answers with the value before that write, not with the write's value.
C5_Witness ==
    \E p \in Procs :
        /\ Answering(p, "read_key") /\ ~fault[p]
        /\ 0 < seen[p] /\ seen[p] < Len(log)
        /\ log[seen[p] + 1].key = req[p].key
        /\ resp[p].status = "Found"
        /\ resp[p].value # log[seen[p] + 1].val

\* C6 (exclusivity): writes are serialized. While a write transaction is
\* open no other write commits, so its insert works on the committed state;
\* and the prior value each committed write reports is the value of the
\* committed write to the same key before it (None for the first).
C6_Exclusivity ==
    /\ \A p \in Procs : tx[p].kind = "write" =>
          /\ seen[p] = Len(log)
          /\ pc[p] = "insert" => tx[p].view = db
    /\ \A i \in 1..Len(log) : log[i].prior = LastVal(log[i].key, i - 1)

\* Two writes to one key have overlapped: the second began its transaction
\* after the first committed, and reported the first's value as prior.
C6_Witness ==
    \E p \in Procs :
        /\ Len(log) = 2 /\ log[1].key = log[2].key
        /\ log[2].prior = Some(log[1].val)
        /\ IsWrite(req[p].op) /\ pc[p] \in {"done", "ret"} /\ seen[p] = 1
        /\ \E q \in Procs \ {p} : IsWrite(req[q].op) /\ pc[q] \in {"done", "ret"}

\* C7 (single writer): at most one write transaction is in flight.
C7_SingleWriter ==
    Cardinality({p \in Procs : tx[p].kind = "write"}) <= 1

\* A write transaction is in flight, past its insert, and a read transaction
\* is open beside it.
C7_Witness ==
    \E p, q \in Procs :
        /\ p # q /\ variant = "http"
        /\ tx[p].kind = "write" /\ pc[p] = "commit"
        /\ tx[q].kind = "read"

\* The workers that hold the process lock, in either mode.
Holders == rwlock.readers \cup (IF rwlock.writer = 0 THEN {} ELSE {rwlock.writer})

\* C8 (lock discipline), as claimed: a write_key holds the lock in exclusive
\* mode for its whole transaction, so while it holds the lock no other
\* request, read or write, holds it.
C8_LockDiscipline ==
    \A p \in Procs :
        (req[p].op = "write_key" /\ p \in Holders) => Holders = {p}

\* C9 (read status mapping), as claimed: read_key answers 200 Found with the
\* value when the key is present, 404 Missing when the key is absent from an
\* existing table and when the table was never created, and 500 Failure only
\* when an engine call failed.
C9_ReadStatusMapping ==
    \A p \in Procs :
        Answering(p, "read_key") =>
            /\ resp[p].code = 500 => (fault[p] /\ resp[p].status = "Failure")
            /\ ~fault[p] =>
                  resp[p] = IF LastVal(req[p].key, seen[p]) = None
                            THEN Response(404, "Missing", "")
                            ELSE Response(200, "Found", LastVal(req[p].key, seen[p])[1])

\* C10 (idempotent re-read): two reads of one key between which no write
\* commits return the same outcome.
C10_IdempotentReread ==
    \A p, q \in Procs :
        ( /\ Returned(p, "read") /\ Returned(q, "read")
          /\ req[p].key = req[q].key
          /\ ~fault[p] /\ ~fault[q]
          /\ seen[p] = seen[q] )
        => ret[p] = ret[q]

\* Two reads of a written key, with no write between them, returned the
\* same value.
C10_Witness ==
    \E p, q \in Procs :
        /\ p # q
        /\ Returned(p, "read") /\ Returned(q, "read")
        /\ req[p].key = req[q].key
        /\ seen[p] = seen[q] /\ seen[p] > 0
        /\ ret[p].tag = "Ok" /\ ret[p] = ret[q]

\* C11 (durability across re-open): once the process has been started again,
\* the store still holds, for every key, the value of its last committed
\* write (and nothing of a transaction that was not committed), and a
\* read_key answers with it.
C11_Durability ==
    boots =>
        /\ db = StoreIn(log, Len(log))
        /\ \A p \in Procs :
              ( /\ Answering(p, "read_key") /\ ~fault[p]
                /\ LastVal(req[p].key, seen[p]) # None )
              => resp[p] = Response(200, "Found", LastVal(req[p].key, seen[p])[1])

\* After a restart, a read_key has answered with a value committed before it.
C11_Witness ==
    \E p \in Procs :
        /\ boots /\ calls = 2 /\ Len(log) = 1
        /\ Answering(p, "read_key") /\ resp[p].status = "Found"
        /\ resp[p].value = log[1].val

\* A request that does not present the configured token.
BadToken(r) == r.op # "none" /\ r.token # Token

\* C12 (authentication precedes the core): a GET or POST whose bearer token
\* is not the configured one is answered 401 by the layer: it never holds
\* the lock or a transaction, its answer carries no stored value, and the
\* steps it takes leave the store and the committed writes unchanged.
C12_AuthPrecedesCore ==
    [][\A p \in Procs :
          /\ BadToken(req'[p]) =>
                /\ pc'[p] = "rejected"
                /\ tx'[p] = NoTx
                /\ p \notin rwlock'.readers /\ rwlock'.writer # p
                /\ resp'[p] = Unauthorized
          /\ ((BadToken(req[p]) \/ BadToken(req'[p])) /\ pc'[p] # pc[p]) =>
                /\ db' = db /\ log' = log /\ tx' = tx
      ]_vars

\* With a value stored under a key, a GET of that key and a POST, both with
\* a wrong token, have been answered 401.
C12_Witness ==
    \E p, q \in Procs :
        /\ BadToken(req[p]) /\ req[p].op = "read_key" /\ pc[p] = "rejected"
        /\ db.data[req[p].key] # None
        /\ BadToken(req[q]) /\ req[q].op = "write_key" /\ pc[q] = "rejected"
        /\ db.data[req[q].key] # Some(req[q].val)
        /\ resp[p].code = 401 /\ resp[q].code = 401

\* C13 (write outcome tag at the HTTP boundary): a write_key answers with a
\* success only when its write is committed, as SuccessNew with an empty
\* value exactly when its key had no committed value when its transaction
\* began and as SuccessOverwrite exactly when it had one; a failure of
\* begin, open_table, insert or commit answers 500 with status Failure; and
\* no answer exists before the commit step.
C13_WriteOutcomeTag ==
    \A p \in Procs :
        /\ Answering(p, "write_key") =>
              IF fault[p]
              THEN resp[p] = from_write_error(IoError)
              ELSE /\ seen[p] < Len(log)
                   /\ log[seen[p] + 1].key = req[p].key
                   /\ log[seen[p] + 1].val = req[p].val
                   /\ resp[p].code = 200
                   /\ resp[p].status =
                         IF LastVal(req[p].key, seen[p]) = None
                         THEN "SuccessNew" ELSE "SuccessOverwrite"
                   /\ resp[p].status = "SuccessNew" => resp[p].value = ""
        /\ (req[p].op = "write_key" /\ pc[p] \in {"lock", "begin", "insert", "commit"})
              => resp[p].code = 0

\* After a write_key that created its key, one write_key is answering
\* SuccessOverwrite for that key and another is answering a failure.
C13_Witness ==
    \E p, q \in Procs :
        /\ Len(log) = 2 /\ log[1].prior = None /\ log[2].key = log[1].key
        /\ Answering(p, "write_key") /\ ~fault[p] /\ seen[p] = 1
        /\ resp[p].status = "SuccessOverwrite"
        /\ Answering(q, "write_key") /\ fault[q]
        /\ resp[q] = Response(500, "Failure", IoError)

\* C14, as stated (HTTP 201 on a successful overwrite, with the old value).
C14_Overwrite201 ==
    \A p \in Procs :
        (Answering(p, "write_key") /\ resp[p].status = "SuccessOverwrite") =>
            /\ resp[p].code = 201
            /\ Some(resp[p].value) = LastVal(req[p].key, seen[p])

\* C14 (amended): on a successful overwrite, write_key answers with HTTP 200
\* and carries the old (overwritten) value as the payload of the response,
\* not the new value.
C14_OverwriteAnswer ==
    \A p \in Procs :
        (Answering(p, "write_key") /\ resp[p].status = "SuccessOverwrite") =>
            /\ resp[p].code = 200
            /\ Some(resp[p].value) = LastVal(req[p].key, seen[p])
            /\ seen[p] < Len(log) /\ log[seen[p] + 1].val = req[p].val

\* A write_key that replaced a value by a different one is answering, with
\* the value it replaced.
C14_Witness ==
    \E p \in Procs :
        /\ Answering(p, "write_key") /\ resp[p].status = "SuccessOverwrite"
        /\ seen[p] > 0 /\ log[seen[p]].key = req[p].key
        /\ resp[p].value = log[seen[p]].val
        /\ resp[p].value # req[p].val

\* A read, through either variant.
IsRead(o) == o \in {"read", "read_key"}

\* The outcome of p's finished read is the one for a table never created.
ReadsNoTable(p) ==
    IF req[p].op = "read"
    THEN pc[p] = "done" /\ ret[p] = ErrEmptyTable(req[p].key)
    ELSE pc[p] = "ret" /\ resp[p] = from_read_error(TableDoesNotExist)

\* C15 (read has no effect on the store): every step of a read, whatever
\* its outcome, leaves the store (every key's value, and whether the table
\* exists) and the committed writes unchanged; and as long as no write has
\* committed the table does not exist, so that a read finishing without an
\* engine failure finds no table: Db::read returns EmptyTable (read_key
\* reports the engine's TableDoesNotExist).
C15_ReadNoEffect ==
    [][\A p \in Procs :
          (IsRead(req[p].op) /\ pc'[p] # pc[p]) =>
              /\ db' = db /\ log' = log
              /\ (pc[p] = "lookup" /\ Len(log) = 0 /\ ~fault'[p]) =>
                    /\ ~db'.exists
                    /\ req'[p].op = "read" => ret'[p] = ErrEmptyTable(req[p].key)
                    /\ req'[p].op = "read_key" =>
                          resp'[p] = from_read_error(TableDoesNotExist)
      ]_vars

\* On a fresh store, after an earlier call, two reads have finished: both
\* found no table, and the table still does not exist.
C15_Witness ==
    \E p, q \in Procs :
        /\ p # q /\ calls = MaxCalls /\ Len(log) = 0 /\ ~db.exists
        /\ IsRead(req[p].op) /\ ~fault[p] /\ ReadsNoTable(p)
        /\ IsRead(req[q].op) /\ ~fault[q] /\ ReadsNoTable(q)

\* C16 (exactly one key is mutated per write): the step in which a write
\* commits sets its key to its value and leaves every other key as it was;
\* every other step of a write leaves the store unchanged.
C16_OneKeyMutated ==
    [][\A p \in Procs :
          (IsWrite(req[p].op) /\ pc'[p] # pc[p]) =>
              IF pc[p] = "commit" /\ ~fault'[p]
              THEN /\ db'.data[req[p].key] = Some(req[p].val)
                   /\ \A k \in Keys \ {req[p].key} : db'.data[k] = db.data[k]
                   /\ Len(log') = Len(log) + 1
              ELSE db' = db /\ log' = log
      ]_vars

\* Two writes to different keys with different values have committed: each
\* key holds the value of its own write.
C16_Witness ==
    \E p \in Procs :
        /\ Len(log) = 2 /\ log[1].key # log[2].key /\ log[1].val # log[2].val
        /\ IsWrite(req[p].op) /\ pc[p] \in {"done", "ret"} /\ ~fault[p]
        /\ seen[p] = 1
        /\ db.data[log[1].key] = Some(log[1].val)
        /\ db.data[log[2].key] = Some(log[2].val)

\* Whether one of the first n committed writes wrote k.
WrittenBy(k, n) == \E i \in 1..n : log[i].key = k

\* C17 (presence is monotonic): every key that a committed write has written
\* is present, and the table exists once a write has committed; so a read of
\* K begun after a write to K committed returns a value unless an engine
\* call fails, and a read begun after any write committed does not report a
\* missing table.
C17_PresenceMonotonic ==
    /\ \A i \in 1..Len(log) : db.data[log[i].key] # None
    /\ Len(log) > 0 => db.exists
    /\ \A p \in Procs :
          /\ (Returned(p, "read") /\ ~fault[p]) =>
                /\ WrittenBy(req[p].key, seen[p]) => ret[p].tag = "Ok"
                /\ seen[p] > 0 => ret[p].tag # "EmptyTable"
          /\ (Answering(p, "read_key") /\ ~fault[p]) =>
                /\ WrittenBy(req[p].key, seen[p]) => resp[p].status = "Found"
                /\ seen[p] > 0 => resp[p] # from_read_error(TableDoesNotExist)

\* After a write to K and then a write to another key, a read of K has
\* returned K's value.
C17_Witness ==
    \E p \in Procs :
        /\ Len(log) = 2 /\ log[1].key # log[2].key
        /\ Returned(p, "read") /\ req[p].key = log[1].key /\ seen[p] = 2
        /\ ret[p] = Ok(Some(log[1].val))

\* How far a call has come: waiting for the lock, about to begin its
\* transaction, inside it, about to commit, answering, finished.
Stage(s) ==
    CASE s = "lock" -> 1
      [] s = "begin" -> 2
      [] s \in {"lookup", "insert"} -> 3
      [] s = "commit" -> 4
      [] s = "ret" -> 5
      [] OTHER -> 6

\* C18 (one transaction per call, no retry): a call gets a transaction only
\* in its begin step and never steps back to an earlier stage (no second
\* attempt); the step in which an engine call fails ends the call with the
\* transaction closed; and a worker that is not inside an operation holds
\* no transaction.
C18_OneTxPerCall ==
    [][\A p \in Procs :
          /\ (tx[p] = NoTx /\ tx'[p] # NoTx) => pc[p] = "begin"
          /\ (pc'[p] # pc[p] /\ calls' = calls) => Stage(pc'[p]) > Stage(pc[p])
          /\ (~fault[p] /\ fault'[p]) =>
                pc'[p] \in {"done", "ret"} /\ tx'[p] = NoTx
          /\ pc'[p] \in {"idle", "lock", "begin", "ret", "done"} => tx'[p] = NoTx
      ]_vars

\* All calls are made: a write that failed has returned while no write is
\* committed (nothing was attempted a second time), a read has returned as
\* well, and no transaction is left open.
C18_Witness ==
    \E p, q \in Procs :
        /\ p # q /\ calls = MaxCalls /\ Len(log) = 0
        /\ Returned(p, "write") /\ fault[p] /\ ret[p] = ErrRedb(IoError)
        /\ Returned(q, "read") /\ ~fault[q]
        /\ \A r \in Procs : tx[r] = NoTx

\* Worker p's request is started and not yet returned.
InFlight(p) == pc[p] \in {"lock", "begin", "lookup", "insert", "commit", "ret"}

\* C19 (no deadlock between the process lock and the writer slot): under
\* fair scheduling every started request returns, holding neither the lock
\* nor a transaction (so the writer slot is free of it), after a failure as
\* after a success, and it returns only by answering (200, 404 or 500); a
\* request takes the lock in its lock step only, once, and gives it back
\* when it returns.
C19_NoDeadlock ==
    /\ [][\A p \in Procs :
             /\ (p \notin rwlock.readers /\ p \in rwlock'.readers) =>
                   pc[p] = "lock" /\ pc'[p] = "begin"
             /\ (p \in rwlock.readers /\ p \notin rwlock'.readers) =>
                   pc[p] = "ret" /\ pc'[p] = "idle"
             /\ rwlock'.writer = 0
             /\ (pc[p] # "idle" /\ pc'[p] = "idle") =>
                   pc[p] = "ret" /\ resp[p].code \in {200, 404, 500}
       ]_vars
    /\ \A p \in Procs :
          InFlight(p) ~> (pc[p] = "idle" /\ tx[p] = NoTx /\ p \notin Holders)

\* All requests are started, and a write_key waits for the writer slot,
\* holding the process lock, while another write_key holds the slot and the
\* lock too.
C19_Witness ==
    \E p, q \in Procs :
        /\ p # q
        /\ req[p].op = "write_key" /\ pc[p] = "begin" /\ p \in Holders
        /\ tx[q].kind = "write" /\ q \in Holders
        /\ calls = MaxCalls

\* The answer a of read_key reports the outcome r of Db::read: the value
\* found, the key missing, the table never created (not a failure of the
\* engine), or an engine failure.
Corresponds(r, a) ==
    CASE r.tag = "Ok" -> a = Response(200, "Found", r.opt[1])
      [] r.tag = "KeyMissing" -> a.status = "Missing"
      [] r.tag = "EmptyTable" -> a.status # "Failure" /\ a.status # "Found"
      [] OTHER -> a = from_read_error(IoError)

\* C20 (the two variants agree), as claimed: in either variant the store is
\* the result of the committed writes and each write reports the value
\* committed before it; and on every snapshot a read works on, whichever
\* engine call fails, read_key answers with the outcome that Db::read
\* returns.
C20_VariantsAgree ==
    /\ db = StoreIn(log, Len(log))
    /\ \A i \in 1..Len(log) : log[i].prior = LastVal(log[i].key, i - 1)
    /\ \A p \in Procs :
          (tx[p].kind = "read" /\ pc[p] = "lookup") =>
              \A e \in ReadFailures :
                  Corresponds(read_result(tx[p], req[p].key, e),
                              read_key_response(tx[p], req[p].key, e))

====
